---- MODULE Spec2Model ----
(***************************************************************************)
(* nginx-ingress-parser: the line parser (internal/parser), the metric     *)
(* collector (internal/metric) and the ingestion loop of main.go.          *)
(*                                                                         *)
(* Strings are sequences of one-character strings, so that the conversions *)
(* of the parser (strings.Contains, strconv.ParseInt, strconv.ParseFloat,  *)
(* strings.Split, url.Parse, time.Parse) are computed and not assumed.     *)
(* float64 values are kept as integers in thousandths (nginx prints        *)
(* request_time with millisecond resolution).                              *)
(***************************************************************************)
EXTENDS Integers, Sequences, FiniteSets, TLC

VARIABLES
    group,          \* MetricCollector.group
    latencyData,    \* MetricCollector.latencyData   (nil is the empty map)
    responseData,   \* MetricCollector.responseData  (nil is the empty map)
    timedOutData,   \* MetricCollector.timedOutData  (nil is the empty map)
    out,            \* what the last GetInfo call printed, NoOutput before
    last,           \* the last operation that ran, with its inputs and result
    calls,          \* number of AddLine calls / lines read so far
    added,          \* history: how many records of each kind were accepted so far
    text,           \* rootCmd.Run: text, the line scanner.Text() returned
                    \* (a matched line carries the raw field map pl of gonx)
    parsed,         \* rootCmd.Run: res, err of parser.Parse(text); under
                    \* SpecTypeify the map msi typeifyParsedLine returned
    mpc,            \* main goroutine: position in rootCmd.Run
    hpc,            \* signal goroutine: position in the handler
    sigc,           \* number of signals buffered in channel c (capacity 1)
    seen            \* signal goroutine: what GetInfo has read and printed so far

vars == <<group, latencyData, responseData, timedOutData, out, last, calls,
          added, text, parsed, mpc, hpc, sigc, seen>>

-----------------------------------------------------------------------------
(* Strings *)

Digits == {"0", "1", "2", "3", "4", "5", "6", "7", "8", "9"}

DigitVal(c) ==
    CASE c = "0" -> 0 [] c = "1" -> 1 [] c = "2" -> 2 [] c = "3" -> 3
      [] c = "4" -> 4 [] c = "5" -> 5 [] c = "6" -> 6 [] c = "7" -> 7
      [] c = "8" -> 8 [] c = "9" -> 9

AllDigits(s) == \A i \in 1..Len(s) : s[i] \in Digits

RECURSIVE NumVal(_)
NumVal(s) ==
    IF s = <<>> THEN 0 ELSE 10 * NumVal(SubSeq(s, 1, Len(s) - 1)) + DigitVal(s[Len(s)])

\* strings.Contains(v, c) for a one-character c
Contains(s, c) == \E i \in 1..Len(s) : s[i] = c

\* strings.Index / strings.LastIndex for a one-character c; 0 when absent
Index(s, c) ==
    IF Contains(s, c) THEN CHOOSE i \in 1..Len(s) : s[i] = c /\ \A j \in 1..(i - 1) : s[j] # c
    ELSE 0

LastIndex(s, c) ==
    IF Contains(s, c) THEN CHOOSE i \in 1..Len(s) : s[i] = c /\ \A j \in (i + 1)..Len(s) : s[j] # c
    ELSE 0

\* strings.Split(s, c) for a one-character separator
RECURSIVE Split(_, _)
Split(s, c) ==
    IF ~Contains(s, c) THEN <<s>>
    ELSE <<SubSeq(s, 1, Index(s, c) - 1)>> \o Split(SubSeq(s, Index(s, c) + 1, Len(s)), c)

\* strconv.ParseInt(v, 10, 64): an optional sign and at least one digit.
\* The inputs of the model stay far below 2^63, so no range error arises.
ParseInt(v) ==
    LET signed == v # <<>> /\ v[1] \in {"+", "-"}
        body   == IF signed THEN Tail(v) ELSE v
    IN  IF body # <<>> /\ AllDigits(body)
        THEN [ok |-> TRUE, val |-> IF signed /\ v[1] = "-" THEN -NumVal(body) ELSE NumVal(body)]
        ELSE [ok |-> FALSE, val |-> 0]

\* The digits of a fraction as thousandths: "5" -> 500, "25" -> 250, "125" -> 125
Thousandths(frac) ==
    LET d(i) == IF i <= Len(frac) THEN DigitVal(frac[i]) ELSE 0
    IN  100 * d(1) + 10 * d(2) + d(3)

\* strconv.ParseFloat(v, 64) on decimal notation: an optional sign, digits with
\* at most one point, at least one digit.  The value is in thousandths.
\* Exponent, hexadecimal, infinity and NaN forms are not among the inputs.
ParseFloat(v) ==
    LET signed == v # <<>> /\ v[1] \in {"+", "-"}
        body   == IF signed THEN Tail(v) ELSE v
        dot    == Index(body, ".")
        whole  == IF dot = 0 THEN body ELSE SubSeq(body, 1, dot - 1)
        frac   == IF dot = 0 THEN <<>> ELSE SubSeq(body, dot + 1, Len(body))
        ok     == AllDigits(whole) /\ AllDigits(frac) /\ Len(whole) + Len(frac) > 0
        mag    == 1000 * NumVal(whole) + Thousandths(frac)
    IN  IF ok THEN [ok |-> TRUE, val |-> IF signed /\ v[1] = "-" THEN -mag ELSE mag]
        ELSE [ok |-> FALSE, val |-> 0]

-----------------------------------------------------------------------------
(* internal/parser *)

Months == <<<<"J","a","n">>, <<"F","e","b">>, <<"M","a","r">>, <<"A","p","r">>,
            <<"M","a","y">>, <<"J","u","n">>, <<"J","u","l">>, <<"A","u","g">>,
            <<"S","e","p">>, <<"O","c","t">>, <<"N","o","v">>, <<"D","e","c">>>>

DaysIn(mo, y) ==
    IF mo = 2 THEN (IF y % 4 = 0 /\ (y % 100 # 0 \/ y % 400 = 0) THEN 29 ELSE 28)
    ELSE IF mo \in {4, 6, 9, 11} THEN 30 ELSE 31

\* the zero time.Time, left in TimeLocal by the error path
ZeroTime == [Y |-> 1, Mo |-> 1, D |-> 1, h |-> 0, m |-> 0, s |-> 0]

\* time.Parse(nginxIngressTimeFormat, v): day (one or two digits) "/" month
\* abbreviation "/" four-digit year ":" hour (one or two digits) ":" two-digit
\* minute ":" two-digit second, then the literal " +0000".
TimeParse(v) ==
    LET bad   == [ok |-> FALSE, val |-> ZeroTime]
        s1    == Index(v, "/")
        day   == SubSeq(v, 1, s1 - 1)
        r1    == SubSeq(v, s1 + 1, Len(v))
        mon   == SubSeq(r1, 1, 3)
        r2    == SubSeq(r1, 5, Len(r1))
        year  == SubSeq(r2, 1, 4)
        r3    == SubSeq(r2, 6, Len(r2))
        c1    == Index(r3, ":")
        hour  == SubSeq(r3, 1, c1 - 1)
        r4    == SubSeq(r3, c1 + 1, Len(r3))
        min   == SubSeq(r4, 1, 2)
        sec   == SubSeq(r4, 4, 5)
        zone  == SubSeq(r4, 6, Len(r4))
        shape == /\ s1 \in {2, 3} /\ AllDigits(day)
                 /\ Len(r1) >= 4 /\ r1[4] = "/" /\ \E i \in 1..12 : Months[i] = mon
                 /\ Len(r2) >= 5 /\ AllDigits(year) /\ r2[5] = ":"
                 /\ c1 \in {2, 3} /\ AllDigits(hour)
                 /\ Len(r4) >= 5 /\ AllDigits(min) /\ r4[3] = ":" /\ AllDigits(sec)
                 /\ zone = <<" ", "+", "0", "0", "0", "0">>
    IN  IF ~shape THEN bad
        ELSE LET mo == CHOOSE i \in 1..12 : Months[i] = mon
                 t  == [Y |-> NumVal(year), Mo |-> mo, D |-> NumVal(day),
                        h |-> NumVal(hour), m |-> NumVal(min), s |-> NumVal(sec)]
             IN  IF /\ t.D \in 1..DaysIn(mo, t.Y)
                    /\ t.h < 24 /\ t.m < 60 /\ t.s < 60
                 THEN [ok |-> TRUE, val |-> t] ELSE bad

\* url.Parse("http://localhost" + target): the query is cut at the first "?",
\* the authority runs to the first "/", and a ":" in the authority must be
\* followed by digits only (a port).  Targets with "#" or "%" are not among
\* the inputs, so no fragment is cut and no escape is decoded.
URLParse(target) ==
    LET q     == Index(target, "?")
        rest  == IF q = 0 THEN target ELSE SubSeq(target, 1, q - 1)
        query == IF q = 0 THEN <<>> ELSE SubSeq(target, q + 1, Len(target))
        sl    == Index(rest, "/")
        auth  == IF sl = 0 THEN rest ELSE SubSeq(rest, 1, sl - 1)
        path  == IF sl = 0 THEN <<>> ELSE SubSeq(rest, sl, Len(rest))
        colon == LastIndex(auth, ":")
        okPort == colon = 0 \/ AllDigits(SubSeq(auth, colon + 1, Len(auth)))
    IN  [ok |-> okPort, Path |-> path, RawQuery |-> query]

NilRequest == [nil |-> TRUE]
NilResult  == [nil |-> TRUE]
IsNil(x)   == "nil" \in DOMAIN x

requestStringToReq(str) ==
    LET strArr == Split(str, " ")
        urlRes == URLParse(strArr[2])
    IN  IF Len(strArr) # 3 THEN [err |-> TRUE, req |-> NilRequest]
        ELSE IF ~urlRes.ok THEN [err |-> TRUE, req |-> NilRequest]
        ELSE [err |-> FALSE,
              req |-> [Method |-> strArr[1], Path |-> urlRes.Path, Query |-> urlRes.RawQuery]]

\* typeifyParsedLine with a dotted value that is not a float left out of the
\* map, where the code falls through to msi[k] = v
typeifyValue_NoFallback(v) ==
    IF Contains(v, ".")
    THEN IF ParseFloat(v).ok THEN [t |-> "float64", v |-> ParseFloat(v).val]
         ELSE [t |-> "omit", v |-> v]
    ELSE IF v = <<"-">> THEN [t |-> "omit", v |-> v]
    ELSE IF ParseInt(v).ok THEN [t |-> "int64", v |-> ParseInt(v).val]
    ELSE [t |-> "string", v |-> v]

\* one field of typeifyParsedLine; t = "omit" stands for `continue` without a store
typeifyValue(v) ==
    IF Contains(v, ".")
    THEN IF ParseFloat(v).ok THEN [t |-> "float64", v |-> ParseFloat(v).val]
         ELSE [t |-> "string", v |-> v]
    ELSE IF v = <<"-">> THEN [t |-> "omit", v |-> v]
    ELSE IF ParseInt(v).ok THEN [t |-> "int64", v |-> ParseInt(v).val]
    ELSE [t |-> "string", v |-> v]

typeifyParsedLine(pl) ==
    [k \in {f \in DOMAIN pl : typeifyValue(pl[f]).t # "omit"} |-> typeifyValue(pl[k])]

toString(parsedLine, field) ==
    IF field \notin DOMAIN parsedLine THEN [err |-> TRUE, val |-> <<>>]
    ELSE IF parsedLine[field].t # "string" THEN [err |-> TRUE, val |-> <<>>]
    ELSE [err |-> FALSE, val |-> parsedLine[field].v]

toFloat64(parsedLine, field) ==
    IF field \notin DOMAIN parsedLine THEN [err |-> TRUE, val |-> 0]
    ELSE IF parsedLine[field].t # "float64" THEN [err |-> TRUE, val |-> 0]
    ELSE [err |-> FALSE, val |-> parsedLine[field].v]

toInt64(parsedLine, field) ==
    IF field \notin DOMAIN parsedLine THEN [err |-> TRUE, val |-> 0]
    ELSE IF parsedLine[field].t # "int64" THEN [err |-> TRUE, val |-> 0]
    ELSE [err |-> FALSE, val |-> parsedLine[field].v]

NoUpstream == <<"0", ".", "0", ".", "0", ".", "0">>

Failed == [err |-> TRUE, res |-> NilResult]

parsedLineToResult(line) ==
    LET addr   == toString(line, "upstream_addr")
        rt     == toFloat64(line, "request_time")
        tl     == toString(line, "time_local")
        tm     == TimeParse(tl.val)
        status == toInt64(line, "upstream_status")
        reqStr == toString(line, "request")
        req    == requestStringToReq(reqStr.val)
    IN  IF rt.err THEN Failed
        ELSE IF tl.err THEN Failed
        ELSE IF ~tm.ok THEN Failed
        ELSE IF status.err THEN Failed
        ELSE IF reqStr.err THEN Failed
        ELSE IF req.err THEN Failed
        ELSE [err |-> FALSE,
              res |-> [UpstreamAddr   |-> IF addr.err THEN NoUpstream ELSE addr.val,
                       TimeLocal      |-> tm.val,
                       Request        |-> req.req,
                       RequestTime    |-> rt.val,
                       UpstreamStatus |-> status.val,
                       TimedOut       |-> FALSE]]

\* an error path that forgets the timeout flag
parsedErrLineToResult_NotFlagged(line) ==
    LET addr   == toString(line, "upstream_addr")
        reqStr == toString(line, "request")
        req    == requestStringToReq(reqStr.val)
    IN  IF reqStr.err THEN [err |-> TRUE, res |-> NilResult]
        ELSE IF req.err THEN [err |-> TRUE, res |-> NilResult]
        ELSE [err |-> FALSE,
              res |-> [UpstreamAddr   |-> IF addr.err THEN NoUpstream ELSE addr.val,
                       TimeLocal      |-> ZeroTime,
                       Request        |-> req.req,
                       RequestTime    |-> 0,
                       UpstreamStatus |-> 504,
                       TimedOut       |-> FALSE]]

GatewayTimeout == 504

parsedErrLineToResult(line) ==
    LET addr   == toString(line, "upstream_addr")
        reqStr == toString(line, "request")
        req    == requestStringToReq(reqStr.val)
    IN  IF reqStr.err THEN Failed
        ELSE IF req.err THEN Failed
        ELSE [err |-> FALSE,
              res |-> [UpstreamAddr   |-> IF addr.err THEN NoUpstream ELSE addr.val,
                       TimeLocal      |-> ZeroTime,
                       Request        |-> req.req,
                       RequestTime    |-> 0,
                       UpstreamStatus |-> GatewayTimeout,
                       TimedOut       |-> TRUE]]

\* gonx.Parser.ParseString: a line is abstracted to the template whose literal
\* structure it has ("access", "error" or "neither"; the two templates differ
\* in their first literals, so no line has both) and to the raw text of the
\* placeholders the code reads.
gonxParse(line)    == [err |-> line.kind # "access", Fields |-> line.fields]
gonxErrParse(line) == [err |-> line.kind # "error", Fields |-> line.fields]

\* Parse that falls back to the error template when the access path fails too
Parse_Retrying(line) ==
    LET gonxEvent    == gonxParse(line)
        gonxEventErr == gonxErrParse(line)
        viaError     == IF gonxEventErr.err
                        THEN [err |-> TRUE, res |-> NilResult, tried |-> <<"access", "error">>]
                        ELSE [tried |-> <<"access", "error">>] @@
                             parsedErrLineToResult(typeifyParsedLine(gonxEventErr.Fields))
        viaAccess    == parsedLineToResult(typeifyParsedLine(gonxEvent.Fields))
    IN  IF gonxEvent.err THEN viaError
        ELSE IF viaAccess.err THEN viaError
        ELSE [tried |-> <<"access">>] @@ viaAccess

\* NginxParser.Parse; tried records which templates were run, in order
Parse(line) ==
    LET gonxEvent    == gonxParse(line)
        gonxEventErr == gonxErrParse(line)
    IN  IF gonxEvent.err
        THEN IF gonxEventErr.err
             THEN [err |-> TRUE, res |-> NilResult, tried |-> <<"access", "error">>]
             ELSE [tried |-> <<"access", "error">>] @@
                  parsedErrLineToResult(typeifyParsedLine(gonxEventErr.Fields))
        ELSE [tried |-> <<"access">>] @@
             parsedLineToResult(typeifyParsedLine(gonxEvent.Fields))

-----------------------------------------------------------------------------
(* Input lines *)

Sp == <<" ">>
GET == <<"G", "E", "T">>
HTTP11 == <<"H", "T", "T", "P", "/", "1", ".", "1">>
Dash == <<"-">>

PathA == <<"/", "a">>
PathB == <<"/", "b">>
Addr1 == <<"1", "0", ".", "0", ".", "0", ".", "1", ":", "8", "0">>
Addr2 == <<"1", "0", ".", "0", ".", "0", ".", "2", ":", "8", "0">>

ReqA      == GET \o Sp \o PathA \o Sp \o HTTP11
ReqB      == GET \o Sp \o PathB \o <<"?", "x", "=", "1">> \o Sp \o HTTP11
ReqTwo    == GET \o Sp \o HTTP11
ReqBadURL == GET \o Sp \o <<":", "x">> \o Sp \o HTTP11

TimeGood == <<"9", "/", "M", "a", "r", "/", "2", "0", "2", "3", ":", "1", "0", ":",
              "0", "4", ":", "0", "5", " ", "+", "0", "0", "0", "0">>
TimeBad  == <<"3", "0", "/", "F", "e", "b", "/", "2", "0", "2", "3", ":", "1", "0", ":",
              "0", "4", ":", "0", "5", " ", "+", "0", "0", "0", "0">>

RT_Half  == <<"0", ".", "5">>
RT_2500m == <<"2", ".", "5", "0", "0">>
RT_2500s == <<"2", "5", "0", "0", ".", "0">>
RT_Int   == <<"3">>

St200   == <<"2", "0", "0">>
St404   == <<"4", "0", "4">>
St502   == <<"5", "0", "2">>
StTwo   == <<"2", "0", "0", ",", " ", "2", "0", "0">>
StError == <<"e", "r", "r", "o", "r">>

AccessLine(addr, rt, tl, st, req) ==
    [kind |-> "access",
     fields |-> [upstream_addr |-> addr, request_time |-> rt, time_local |-> tl,
                 upstream_status |-> st, request |-> req, status |-> St200]]

ErrorLine(addr, st, req) ==
    [kind |-> "error",
     fields |-> [upstream_addr |-> addr, status |-> st, request |-> req]]

NeitherLine == [kind |-> "neither", fields |-> <<>>]

\* every combination of the field texts: the inputs of Parse
AllLines ==
    {AccessLine(addr, rt, tl, st, req) :
        addr \in {Addr1, Addr2, Dash}, rt \in {RT_Half, RT_2500m, RT_2500s, RT_Int, Dash},
        tl \in {TimeGood, TimeBad, Dash}, st \in {St200, St404, St502, StTwo, Dash},
        req \in {ReqA, ReqB, ReqTwo, ReqBadURL, Dash}}
    \cup {ErrorLine(addr, st, req) :
        addr \in {Addr1, Addr2, Dash}, st \in {StError, St200},
        req \in {ReqA, ReqB, ReqTwo, ReqBadURL, Dash}}
    \cup {NeitherLine}

\* the lines fed to the ingestion loop: a well-formed access line and a
\* well-formed error line, each with one field varied at a time
Lines ==
    {AccessLine(Addr1, RT_Half, TimeGood, St200, ReqA),
     AccessLine(Addr2, RT_2500m, TimeGood, St200, ReqB),
     AccessLine(Addr1, RT_2500s, TimeGood, St502, ReqA),
     AccessLine(Dash, RT_Half, TimeGood, St404, ReqB),
     AccessLine(Addr1, RT_Int, TimeGood, St200, ReqA),
     AccessLine(Addr1, Dash, TimeGood, St200, ReqA),
     AccessLine(Addr1, RT_Half, TimeBad, St200, ReqA),
     AccessLine(Addr1, RT_Half, TimeGood, StTwo, ReqA),
     AccessLine(Addr1, RT_Half, TimeGood, Dash, ReqA),
     AccessLine(Addr1, RT_Half, TimeGood, St200, ReqTwo),
     AccessLine(Addr1, RT_Half, TimeGood, St200, ReqBadURL),
     ErrorLine(Addr1, StError, ReqA),
     ErrorLine(Addr2, St200, ReqB),
     ErrorLine(Dash, StError, ReqA),
     ErrorLine(Addr1, StError, ReqTwo),
     ErrorLine(Addr1, StError, Dash),
     NeitherLine}

\* the records handed to MetricCollector.AddLine directly: nil, a record
\* without Request, and what Parse returns for the lines above
NoRequestResult ==
    [UpstreamAddr |-> Addr1, TimeLocal |-> ZeroTime, Request |-> NilRequest,
     RequestTime |-> 500, UpstreamStatus |-> 200, TimedOut |-> FALSE]

\* the records that also arrive in long runs
BurstResults ==
    {Parse(l).res : l \in {AccessLine(Addr1, RT_2500s, TimeGood, St502, ReqA),
                           ErrorLine(Addr1, StError, ReqA)}}

Results ==
    {NilResult, NoRequestResult} \cup BurstResults
    \cup {Parse(l).res : l \in {AccessLine(Addr1, RT_Half, TimeGood, St200, ReqA),
                                AccessLine(Addr2, RT_2500m, TimeGood, St200, ReqB)}}

-----------------------------------------------------------------------------
(* internal/metric *)

GroupKindUpstreamIP == "upstream_ip"
GroupKindPath       == "path"

\* m[k] = v on a Go map
Put(m, k, v) == (k :> v) @@ m

RECURSIVE SumOver(_, _)
SumOver(f, S) ==
    IF S = {} THEN 0
    ELSE LET x == CHOOSE y \in S : TRUE IN f[x] + SumOver(f, S \ {x})

\* the key AddLine files a record under
GroupOf(result) == result.Request.Path

\* AddLine that samples the latency of timed-out records as well
AddLatency_Always(ld, result) ==
    LET grp    == GroupOf(result)
        bucket == IF grp \in DOMAIN ld THEN ld[grp]
                  ELSE [IP |-> result.UpstreamAddr, Latencies |-> <<>>]
    IN  Put(ld, grp,
            [bucket EXCEPT !.Latencies =
                Append(@, [latency |-> result.RequestTime, time |-> result.TimeLocal])])

\* AddLine, `if !result.TimedOut { ... }`: the latency sample
AddLatency(ld, result) ==
    LET grp    == GroupOf(result)
        bucket == IF grp \in DOMAIN ld THEN ld[grp]
                  ELSE [IP |-> result.UpstreamAddr, Latencies |-> <<>>]
    IN  IF result.TimedOut THEN ld
        ELSE Put(ld, grp,
                 [bucket EXCEPT !.Latencies =
                     Append(@, [latency |-> result.RequestTime, time |-> result.TimeLocal])])

\* AddLine that stores 1 for a status it has already counted
AddResponse_Reset(rd, result) ==
    LET grp  == GroupOf(result)
        code == result.UpstreamStatus
    IN  IF grp \notin DOMAIN rd THEN Put(rd, grp, Put(<<>>, code, 1))
        ELSE Put(rd, grp, Put(rd[grp], code, 1))

\* AddLine: the response histogram of the group
AddResponse(rd, result) ==
    LET grp  == GroupOf(result)
        code == result.UpstreamStatus
    IN  IF grp \notin DOMAIN rd THEN Put(rd, grp, Put(<<>>, code, 1))
        ELSE IF code \notin DOMAIN rd[grp] THEN Put(rd, grp, Put(rd[grp], code, 1))
        ELSE Put(rd, grp, Put(rd[grp], code, rd[grp][code] + 1))

\* AddLine: the timeout counters of the group
AddTimedOut(td, result) ==
    LET grp == GroupOf(result)
        old == IF grp \in DOMAIN td THEN td[grp] ELSE [Count |-> 0, Total |-> 0]
    IN  Put(td, grp, [Count |-> IF result.TimedOut THEN old.Count + 1 ELSE old.Count,
                      Total |-> old.Total + 1])

\* AddLine drops a nil result and a result without Request
Dropped(result) == IsNil(result) \/ IsNil(result.Request)

\* MetricCollector.AddLine on the three maps m = [ld, rd, td]
AddLineOp(m, result) ==
    IF Dropped(result) THEN m
    ELSE [ld |-> AddLatency(m.ld, result),
          rd |-> AddResponse(m.rd, result),
          td |-> AddTimedOut(m.td, result)]

\* n consecutive AddLine calls with the same record: the first half of the
\* calls, then the rest (a record that is dropped once is dropped every time)
RECURSIVE AddLineN(_, _, _)
AddLineN(m, result, n) ==
    IF n = 0 THEN m
    ELSE IF n = 1 THEN AddLineOp(m, result)
    ELSE LET half == AddLineN(m, result, n \div 2)
         IN  IF half = m THEN m ELSE AddLineN(half, result, n - (n \div 2))

\* history: what was accepted, by path, upstream address and timeout flag
KindOf(result) ==
    [Path |-> result.Request.Path, Addr |-> result.UpstreamAddr, TimedOut |-> result.TimedOut]

Record(hist, result, n) ==
    IF Dropped(result) THEN hist
    ELSE LET k == KindOf(result)
         IN  Put(hist, k, IF k \in DOMAIN hist THEN hist[k] + n ELSE n)

ReportThreshold == 100
OverThreshold   == 2000

\* all orders in which a Go `range` may visit the keys S
Orders(S) ==
    {o \in [1..Cardinality(S) -> S] : \A x \in S : \E i \in DOMAIN o : o[i] = x}

\* the entries E[k] of the keys k in Keep, in the order o
RECURSIVE Select(_, _, _)
Select(o, Keep, E) ==
    IF o = <<>> THEN <<>>
    ELSE (IF Head(o) \in Keep THEN <<E[Head(o)]>> ELSE <<>>) \o Select(Tail(o), Keep, E)

\* GetInfo, first loop: "Total number of requests tracked"
CountReqs(ld) ==
    SumOver([k \in DOMAIN ld |-> Len(ld[k].Latencies)], DOMAIN ld)

has4XXOr5XX(bucket) == \E code \in DOMAIN bucket : code >= 400
totReqs(bucket)     == SumOver(bucket, DOMAIN bucket)

\* a threshold test that lets a group with exactly 100 requests through
ResponsePrinted_AtLeast(bucket) == has4XXOr5XX(bucket) /\ totReqs(bucket) >= ReportThreshold

\* GetInfo, second loop: whether the group is printed
ResponsePrinted(bucket) == has4XXOr5XX(bucket) /\ totReqs(bucket) > ReportThreshold

\* GetInfo, second loop: the groups printed under RESPONSE STATUS CODE METRICS;
\* o is the order of the groups, co[path] the order of the codes of a group
ResponseSection(rd, o, co) ==
    LET Keep == {path \in DOMAIN rd : ResponsePrinted(rd[path])}
        E    == [path \in Keep |->
                    [path  |-> path,
                     codes |-> [i \in DOMAIN co[path] |->
                                   <<co[path][i], rd[path][co[path][i]]>>],
                     total |-> totReqs(rd[path])]]
    IN  Select(o, Keep, E)

\* GetInfo, third loop: whether the group is printed
TimeoutPrinted(t) == t.Count > 0 /\ t.Total > ReportThreshold

\* GetInfo, third loop: the lines under TIME OUT PERCENTAGES
TimeoutSection(td, o) ==
    LET Keep == {path \in DOMAIN td : TimeoutPrinted(td[path])}
        E    == [path \in Keep |->
                    [path |-> path, Count |-> td[path].Count, Total |-> td[path].Total]]
    IN  Select(o, Keep, E)

\* totLatency += latency.latency over ls[lo..hi]
RECURSIVE SumRange(_, _, _)
SumRange(ls, lo, hi) ==
    IF lo > hi THEN 0
    ELSE IF lo = hi THEN ls[lo].latency
    ELSE SumRange(ls, lo, (lo + hi) \div 2) + SumRange(ls, (lo + hi) \div 2 + 1, hi)

SumLatency(ls) == SumRange(ls, 1, Len(ls))

\* GetInfo, fourth loop: `if latency.latency > 2000` (float64, here thousandths)
IsOver(sample) == sample.latency > OverThreshold * 1000

NumOver(ls) == Cardinality({i \in DOMAIN ls : IsOver(ls[i])})

\* GetInfo, fourth loop: one line per group, and numOver2s
LatencySection(ld, o) ==
    LET E == [path \in DOMAIN ld |->
                 [path |-> path, totLatency |-> SumLatency(ld[path].Latencies),
                  totReqs |-> Len(ld[path].Latencies)]]
    IN  Select(o, DOMAIN ld, E)

numOver2s(ld) == SumOver([k \in DOMAIN ld |-> NumOver(ld[k].Latencies)], DOMAIN ld)

\* the code orders of the groups of rd that are printed
CodeOrders(rd) ==
    LET P == {path \in DOMAIN rd : ResponsePrinted(rd[path])}
    IN  {co \in [P -> UNION {Orders(DOMAIN rd[path]) : path \in P}] :
            \A path \in P : co[path] \in Orders(DOMAIN rd[path])}

\* every output GetInfo can print for the maps ld, rd, td: the sections in
\* order, the iteration order of each map being unspecified
Reports(ld, rd, td) ==
    {[countReqs |-> CountReqs(ld),
      responses |-> ResponseSection(rd, o2, co),
      timeouts  |-> TimeoutSection(td, o3),
      latencies |-> LatencySection(ld, o4),
      numOver2s |-> numOver2s(ld)] :
        o2 \in Orders(DOMAIN rd), co \in CodeOrders(rd),
        o3 \in Orders(DOMAIN td), o4 \in Orders(DOMAIN ld)}

NoOutput == [none |-> TRUE]

-----------------------------------------------------------------------------
(* The collector driven through its two methods *)

MaxCalls == 3

\* a run of identical lines long enough to reach the reporting threshold
BurstLen == ReportThreshold

NotParsed == [none |-> TRUE]
NoLine    == [none |-> TRUE]

Maps == [ld |-> latencyData, rd |-> responseData, td |-> timedOutData]

\* metric.NewMetricCollector(group, metric): the three maps are nil
NewMetricCollector(g) ==
    /\ group = g
    /\ latencyData = <<>>
    /\ responseData = <<>>
    /\ timedOutData = <<>>

InitCollector ==
    /\ \E g \in {GroupKindUpstreamIP, GroupKindPath} : NewMetricCollector(g)
    /\ out = NoOutput
    /\ last = "New"
    /\ calls = 0
    /\ added = <<>>
    /\ text = NoLine
    /\ parsed = NotParsed
    /\ mpc = "none"
    /\ hpc = "none"
    /\ sigc = 0
    /\ seen = NoOutput

\* n calls of MetricCollector.AddLine(result, rawLine)
AddLineCalls(result, n) ==
    LET m == AddLineN(Maps, result, n)
    IN  /\ latencyData' = m.ld
        /\ responseData' = m.rd
        /\ timedOutData' = m.td
        /\ added' = Record(added, result, n)

AddLine(result) ==
    /\ calls < MaxCalls
    /\ AddLineCalls(result, 1)
    /\ calls' = calls + 1
    /\ last' = "AddLine"
    /\ UNCHANGED <<group, out, text, parsed, mpc, hpc, sigc, seen>>

AddLineBurst(result) ==
    /\ calls < MaxCalls
    /\ AddLineCalls(result, BurstLen)
    /\ calls' = calls + 1
    /\ last' = "AddLine"
    /\ UNCHANGED <<group, out, text, parsed, mpc, hpc, sigc, seen>>

\* GetInfo that drains the samples it has reported
GetInfo_Draining ==
    /\ out' \in Reports(latencyData, responseData, timedOutData)
    /\ last' = IF last \in {"GetInfo", "GetInfoAgain"} THEN "GetInfoAgain" ELSE "GetInfo"
    /\ latencyData' = <<>>
    /\ UNCHANGED <<group, responseData, timedOutData, calls, added,
                   text, parsed, mpc, hpc, sigc, seen>>

\* MetricCollector.GetInfo(); last tells a call that follows another GetInfo
\* directly from one that follows New or AddLine
GetInfo ==
    /\ out' \in Reports(latencyData, responseData, timedOutData)
    /\ last' = IF last \in {"GetInfo", "GetInfoAgain"} THEN "GetInfoAgain" ELSE "GetInfo"
    /\ UNCHANGED <<group, latencyData, responseData, timedOutData, calls, added,
                   text, parsed, mpc, hpc, sigc, seen>>

NextCollector ==
    \/ \E result \in Results : AddLine(result)
    \/ \E result \in BurstResults : AddLineBurst(result)
    \/ GetInfo

SpecCollector == InitCollector /\ [][NextCollector]_vars

-----------------------------------------------------------------------------
(* Properties of the collector *)

Reported == last \in {"GetInfo", "GetInfoAgain"}

Range(q) == {q[i] : i \in DOMAIN q}

\* the paths of the records accepted so far, and how many were accepted per path
AcceptedPaths == {x.Path : x \in DOMAIN added}
AcceptedFor(k) == SumOver(added, {x \in DOMAIN added : x.Path = k})
TimedOutFor(k) == SumOver(added, {x \in DOMAIN added : x.Path = k /\ x.TimedOut})
AcceptedTotal == SumOver(added, DOMAIN added)

SamplesOf(k) == IF k \in DOMAIN latencyData THEN Len(latencyData[k].Latencies) ELSE 0

\* C1: for every group key, the counts of responseData[k] add up to the number
\* of records accepted for k, and so does timedOutData[k].Total; groups without
\* an accepted record have no entry (dropped records change nothing).
C1_Additivity ==
    /\ DOMAIN responseData = AcceptedPaths
    /\ DOMAIN timedOutData = AcceptedPaths
    /\ \A k \in AcceptedPaths :
          /\ totReqs(responseData[k]) = AcceptedFor(k)
          /\ timedOutData[k].Total = AcceptedFor(k)

\* two groups hold one record each after three calls, one of which was dropped
C1_Witness ==
    /\ calls = 3
    /\ Cardinality(AcceptedPaths) = 2
    /\ AcceptedTotal = 2
    /\ \A k \in AcceptedPaths : timedOutData[k].Total = 1 /\ totReqs(responseData[k]) = 1

\* C2: for every group key, latencyData[k] holds one sample per accepted record
\* that did not time out (Total - Count of them), and timedOutData[k].Count is
\* the number of accepted records that timed out.
C2_SamplesAndTimeouts ==
    /\ DOMAIN latencyData \subseteq DOMAIN timedOutData
    /\ \A k \in DOMAIN timedOutData :
          /\ SamplesOf(k) = timedOutData[k].Total - timedOutData[k].Count
          /\ timedOutData[k].Count = TimedOutFor(k)
          /\ SamplesOf(k) = AcceptedFor(k) - TimedOutFor(k)

\* two access records and one error record for the same path
C2_Witness ==
    /\ SamplesOf(PathA) = 2
    /\ PathA \in DOMAIN timedOutData
    /\ timedOutData[PathA] = [Count |-> 1, Total |-> 3]

\* the key the configured grouping dimension asks for
ConfiguredKey(x) == IF group = GroupKindUpstreamIP THEN x.Addr ELSE x.Path

\* C6: the three aggregates are keyed by the configured grouping dimension: the
\* path under GroupKindPath, the upstream address under GroupKindUpstreamIP.
C6_KeyedByConfiguredDimension ==
    LET Keys == {ConfiguredKey(x) : x \in DOMAIN added}
    IN  /\ DOMAIN responseData = Keys
        /\ DOMAIN timedOutData = Keys
        /\ DOMAIN latencyData \subseteq Keys

\* C7 as stated: a GetInfo call that directly follows another prints the same.
C7_IdenticalOutput == [][last' = "GetInfoAgain" => out' = out]_vars

\* a report with the order of its lines forgotten
Unordered(o) ==
    [countReqs |-> o.countReqs,
     responses |-> {[path |-> e.path, codes |-> Range(e.codes), total |-> e.total] :
                       e \in Range(o.responses)},
     timeouts  |-> Range(o.timeouts),
     latencies |-> Range(o.latencies),
     numOver2s |-> o.numOver2s]

\* C7 amended: GetInfo leaves the collector as it was, and a GetInfo call that
\* directly follows another prints the same lines, in an order that may differ.
C7_ReadOnly ==
    [][/\ last' \in {"GetInfo", "GetInfoAgain"} =>
            UNCHANGED <<group, latencyData, responseData, timedOutData>>
       /\ last' = "GetInfoAgain" => Unordered(out') = Unordered(out)]_vars

\* GetInfo ran twice in a row on two groups with samples
C7_Witness ==
    /\ last = "GetInfoAgain"
    /\ Len(out.latencies) = 2

C9_OverTwoSeconds ==
    Reported =>
        out.numOver2s =
            SumOver([k \in DOMAIN latencyData |->
                        Cardinality({i \in DOMAIN latencyData[k].Latencies :
                                        latencyData[k].Latencies[i].latency > 2 * 1000})],
                    DOMAIN latencyData)

-----------------------------------------------------------------------------
(* Parse applied to one line after another *)

InitParse ==
    /\ NewMetricCollector(GroupKindPath)
    /\ out = NoOutput
    /\ last = "New"
    /\ calls = 0
    /\ added = <<>>
    /\ text \in AllLines
    /\ parsed = NotParsed
    /\ mpc = "none"
    /\ hpc = "none"
    /\ sigc = 0
    /\ seen = NoOutput

\* res, err := parser.Parse(text)
ParseLine ==
    /\ parsed = NotParsed
    /\ parsed' = Parse(text)
    /\ last' = "Parse"
    /\ UNCHANGED <<group, latencyData, responseData, timedOutData, out, calls, added,
                   text, mpc, hpc, sigc, seen>>

\* the next line to parse
NextLine(l) ==
    /\ parsed # NotParsed
    /\ text' = l
    /\ parsed' = NotParsed
    /\ last' = "Line"
    /\ UNCHANGED <<group, latencyData, responseData, timedOutData, out, calls, added,
                   mpc, hpc, sigc, seen>>

NextParse ==
    \/ ParseLine
    \/ \E l \in AllLines : NextLine(l)

SpecParse == InitParse /\ [][NextParse]_vars

\* a decimal number as nginx prints request_time: digits, a point, digits
IsDecimal(v) ==
    LET dot == Index(v, ".")
    IN  /\ dot > 1 /\ dot < Len(v)
        /\ AllDigits(SubSeq(v, 1, dot - 1))
        /\ AllDigits(SubSeq(v, dot + 1, Len(v)))

\* "METHOD TARGET PROTOCOL" with an origin-form target
WellFormedRequest(r) ==
    LET tok == Split(r, " ")
    IN  Len(tok) = 3 /\ tok[1] # <<>> /\ tok[2] # <<>> /\ tok[2][1] = "/" /\ tok[3] # <<>>

\* a valid access-format line: the access template matches, and request_time,
\* time_local, upstream_status and request are as nginx writes them
ValidAccess(l) ==
    /\ l.kind = "access"
    /\ IsDecimal(l.fields.request_time)
    /\ TimeParse(l.fields.time_local).ok
    /\ Len(l.fields.upstream_status) = 3 /\ AllDigits(l.fields.upstream_status)
    /\ WellFormedRequest(l.fields.request)

Classified(p, timedOut, status) ==
    /\ ~p.err
    /\ ~IsNil(p.res)
    /\ p.res.TimedOut = timedOut
    /\ p.res.UpstreamStatus = status

\* C3 as stated: every valid access line gives TimedOut = FALSE and the parsed
\* upstream_status, every line that matches only the error template gives
\* TimedOut = TRUE and 504, and the error template runs only after the access
\* template failed to match.
C3_Classification ==
    parsed # NotParsed =>
        /\ ValidAccess(text) =>
              Classified(parsed, FALSE, NumVal(text.fields.upstream_status))
        /\ text.kind = "error" => Classified(parsed, TRUE, 504)
        /\ parsed.tried[1] = "access"
        /\ Len(parsed.tried) = 2 => text.kind # "access"

\* C3 amended: as C3, but a line that matches only the error template gives
\* such a record when its request field is a well-formed request line; without
\* one, Parse returns an error and no record; any record it gives for an error
\* line has TimedOut = TRUE and 504.
C3_ClassificationWellFormed ==
    parsed # NotParsed =>
        /\ ValidAccess(text) =>
              Classified(parsed, FALSE, NumVal(text.fields.upstream_status))
        /\ (text.kind = "error" /\ WellFormedRequest(text.fields.request)) =>
              Classified(parsed, TRUE, 504)
        /\ (text.kind = "error" /\ ~parsed.err) => Classified(parsed, TRUE, 504)
        /\ (text.kind = "error" /\ Len(Split(text.fields.request, " ")) # 3) =>
              parsed.err /\ IsNil(parsed.res)
        /\ parsed.tried[1] = "access"
        /\ Len(parsed.tried) = 2 => text.kind # "access"

\* an error line that carries a status-like field of 200 was parsed
C3_Witness ==
    /\ parsed # NotParsed
    /\ text.kind = "error"
    /\ text.fields.status = St200
    /\ ~parsed.err
    /\ parsed.res.TimedOut
    /\ parsed.res.UpstreamStatus = 504

\* the access path fails on the typed fields of the line
AccessPathFails(l) == parsedLineToResult(typeifyParsedLine(l.fields)).err

\* C5 as stated: when the access template matches and a required field is
\* absent or mistyped, the line is retried against the error template.
C5_RetryOnFieldFailure ==
    (parsed # NotParsed /\ text.kind = "access" /\ AccessPathFails(text)) =>
        parsed.tried = <<"access", "error">>

\* C5 amended: when the access template matches and a required field is absent
\* or mistyped, Parse returns the error at once, without running the error
\* template, and gives no record.
C5_NoRetry ==
    (parsed # NotParsed /\ text.kind = "access" /\ AccessPathFails(text)) =>
        /\ parsed.tried = <<"access">>
        /\ parsed.err
        /\ IsNil(parsed.res)

\* an access line whose request_time has no decimal point was parsed
C5_Witness ==
    /\ parsed # NotParsed
    /\ text.kind = "access"
    /\ text.fields.request_time = RT_Int
    /\ text.fields.upstream_status = St200
    /\ parsed.err

-----------------------------------------------------------------------------
(* typeifyParsedLine applied to one raw field map after another *)

\* number of fields in a raw field map
MaxFields == 2

\* names of fields of the access template
FieldNames == <<"status", "request_time", "upstream_addr", "request_length">>

Keys == {FieldNames[i] : i \in 1..MaxFields}

\* raw values: the sentinel, integers, floats, dotted values that are not
\* floats, values that are neither, and the empty string
RawValues ==
    {Dash,
     St200, <<"-", "5">>, <<"+", "7">>,
     <<"0", ".", "1", "2", "3">>, <<"1", "0", ".", "5">>, <<"-", "0", ".", "5">>,
     <<".", "5">>, <<"5", ".">>,
     <<"1", "0", ".", "0", ".", "0", ".", "1">>, <<".">>, <<"-", ".">>, <<"a", ".", "b">>,
     StError, <<"1", "2", "a">>, <<"-", "-">>, <<>>}

\* every map from some of the keys to raw values
FieldMaps == UNION {[D -> RawValues] : D \in SUBSET Keys}

MatchedLine(pl) == [kind |-> "access", fields |-> pl]

InitTypeify ==
    /\ NewMetricCollector(GroupKindPath)
    /\ out = NoOutput
    /\ last = "New"
    /\ calls = 0
    /\ added = <<>>
    /\ text \in {MatchedLine(pl) : pl \in FieldMaps}
    /\ parsed = NotParsed
    /\ mpc = "none"
    /\ hpc = "none"
    /\ sigc = 0
    /\ seen = NoOutput

\* msi := typeifyParsedLine(pl)
Typeify ==
    /\ parsed = NotParsed
    /\ parsed' = [msi |-> typeifyParsedLine(text.fields)]
    /\ last' = "Typeify"
    /\ UNCHANGED <<group, latencyData, responseData, timedOutData, out, calls, added,
                   text, mpc, hpc, sigc, seen>>

\* the next raw field map: the one before with field k set to v
NextFields(k, v) ==
    /\ parsed # NotParsed
    /\ text' = MatchedLine((k :> v) @@ text.fields)
    /\ parsed' = NotParsed
    /\ last' = "Fields"
    /\ UNCHANGED <<group, latencyData, responseData, timedOutData, out, calls, added,
                   mpc, hpc, sigc, seen>>

NextTypeify ==
    \/ Typeify
    \/ \E k \in Keys, v \in RawValues : NextFields(k, v)

SpecTypeify == InitTypeify /\ [][NextTypeify]_vars

\* the typed value the stated precedence gives a raw value that is not "-"
Coerced(v) ==
    IF Contains(v, ".") /\ ParseFloat(v).ok THEN [t |-> "float64", v |-> ParseFloat(v).val]
    ELSE IF ~Contains(v, ".") /\ ParseInt(v).ok THEN [t |-> "int64", v |-> ParseInt(v).val]
    ELSE [t |-> "string", v |-> v]

\* C11: typeifyParsedLine maps each raw field by itself: a value equal to "-"
\* is left out of the result; otherwise a value with a decimal point that
\* parses as a float becomes that float; otherwise a value without a decimal
\* point that parses as an integer becomes that integer; every other value is
\* kept as the original string.  No other field is added, dropped or changed,
\* and a dotted value is never typed as an integer.
C11_Precedence ==
    last = "Typeify" =>
        LET pl  == text.fields
            msi == parsed.msi
        IN  /\ DOMAIN msi = {k \in DOMAIN pl : pl[k] # Dash}
            /\ \A k \in DOMAIN msi : msi[k] = Coerced(pl[k])
            /\ \A k \in DOMAIN msi : Contains(pl[k], ".") => msi[k].t # "int64"

\* a map with "10.0.0.1", kept as a string, and "-", left out, was typed
C11_Witness ==
    /\ last = "Typeify"
    /\ DOMAIN text.fields = {"status", "request_time"}
    /\ text.fields["status"] = <<"1", "0", ".", "0", ".", "0", ".", "1">>
    /\ text.fields["request_time"] = Dash
    /\ parsed.msi = [k \in {"status"} |->
                        [t |-> "string", v |-> <<"1", "0", ".", "0", ".", "0", ".", "1">>]]

-----------------------------------------------------------------------------
(* rootCmd.Run without an interrupt: the ingestion loop and the final report *)

MaxLines == 3

InitMain ==
    /\ NewMetricCollector(GroupKindPath)
    /\ out = NoOutput
    /\ last = "New"
    /\ calls = 0
    /\ added = <<>>
    /\ text = NoLine
    /\ parsed = NotParsed
    /\ mpc = "scan"
    /\ hpc = "none"
    /\ sigc = 0
    /\ seen = NoOutput

\* a loop that stops at the first line Parse rejects
ScanLine_Abort(l) ==
    /\ mpc = "scan"
    /\ calls < MaxLines
    /\ text' = l
    /\ parsed' = Parse(l)
    /\ IF parsed'.err
       THEN /\ mpc' = "done"
            /\ UNCHANGED <<latencyData, responseData, timedOutData, added>>
       ELSE /\ mpc' = "scan"
            /\ AddLineCalls(parsed'.res, 1)
    /\ calls' = calls + 1
    /\ last' = "Scan"
    /\ UNCHANGED <<group, out, hpc, sigc, seen>>

\* one iteration of `for scanner.Scan()`: Parse, `continue` on an error,
\* collector.AddLine otherwise
ScanLine(l) ==
    /\ mpc = "scan"
    /\ calls < MaxLines
    /\ text' = l
    /\ parsed' = Parse(l)
    /\ IF parsed'.err
       THEN UNCHANGED <<latencyData, responseData, timedOutData, added>>
       ELSE AddLineCalls(parsed'.res, 1)
    /\ calls' = calls + 1
    /\ last' = "Scan"
    /\ UNCHANGED <<group, out, mpc, hpc, sigc, seen>>

\* scanner.Scan() returns false: collector.GetInfo() and return
EndOfStream ==
    /\ mpc = "scan"
    /\ out' \in Reports(latencyData, responseData, timedOutData)
    /\ mpc' = "done"
    /\ last' = "GetInfo"
    /\ UNCHANGED <<group, latencyData, responseData, timedOutData, calls, added,
                   text, parsed, hpc, sigc, seen>>

NextMain ==
    \/ \E l \in Lines : ScanLine(l)
    \/ EndOfStream

SpecMain == InitMain /\ [][NextMain]_vars

\* C4: a line that Parse rejects leaves the three aggregates as they were, and
\* the loop stays ready for the next line.
C4_BadLineSkipped ==
    [][(calls' = calls + 1 /\ Parse(text').err) =>
          /\ UNCHANGED <<latencyData, responseData, timedOutData>>
          /\ mpc' = "scan"]_vars

\* a rejected line was read after two accepted ones, and the loop goes on
C4_Witness ==
    /\ calls = 3
    /\ parsed # NotParsed
    /\ parsed.err
    /\ AcceptedTotal = 2
    /\ mpc = "scan"

-----------------------------------------------------------------------------
(* rootCmd.Run with the signal goroutine.  AddLine is three steps, one per   *)
(* map it changes; the GetInfo of the handler is four, one per loop.  There  *)
(* is no lock and no channel between the two goroutines.  A loop over a map  *)
(* that the main goroutine is changing is a data race: the loop sees the map *)
(* before or after the change, or the runtime stops the process with         *)
(* "fatal error: concurrent map iteration and map write".                    *)

InitRace ==
    /\ NewMetricCollector(GroupKindPath)
    /\ out = NoOutput
    /\ last = "New"
    /\ calls = 0
    /\ added = <<>>
    /\ text = NoLine
    /\ parsed = NotParsed
    /\ mpc = "scan"
    /\ hpc = "wait"
    /\ sigc = 0
    /\ seen = NoOutput

Alive == mpc \notin {"done", "exited"}

\* os.Interrupt is delivered: signal.Notify sends without blocking into c,
\* which holds one signal
Interrupt ==
    /\ Alive
    /\ sigc = 0
    /\ sigc' = 1
    /\ UNCHANGED <<group, latencyData, responseData, timedOutData, out, last, calls,
                   added, text, parsed, mpc, hpc, seen>>

\* scanner.Scan, parser.Parse, `continue` or the entry of AddLine up to `group :=`
RaceScan(l) ==
    /\ mpc = "scan"
    /\ calls < MaxLines
    /\ text' = l
    /\ parsed' = Parse(l)
    /\ calls' = calls + 1
    /\ mpc' = IF parsed'.err \/ Dropped(parsed'.res) THEN "scan" ELSE "addLatency"
    /\ last' = "Scan"
    /\ UNCHANGED <<group, latencyData, responseData, timedOutData, out, added,
                   hpc, sigc, seen>>

\* AddLine: the latency sample
RaceAddLatency ==
    /\ mpc = "addLatency"
    /\ latencyData' = AddLatency(latencyData, parsed.res)
    /\ mpc' = "addResponse"
    /\ UNCHANGED <<group, responseData, timedOutData, out, last, calls, added,
                   text, parsed, hpc, sigc, seen>>

\* AddLine: m.responseData[group] = respBucket
RaceAddResponse ==
    /\ mpc = "addResponse"
    /\ responseData' = AddResponse(responseData, parsed.res)
    /\ mpc' = "addTimedOut"
    /\ UNCHANGED <<group, latencyData, timedOutData, out, last, calls, added,
                   text, parsed, hpc, sigc, seen>>

\* AddLine: m.timedOutData[group] = timedOutMetric, and return
RaceAddTimedOut ==
    /\ mpc = "addTimedOut"
    /\ timedOutData' = AddTimedOut(timedOutData, parsed.res)
    /\ added' = Record(added, parsed.res, 1)
    /\ mpc' = "scan"
    /\ last' = "AddLine"
    /\ UNCHANGED <<group, latencyData, responseData, out, calls,
                   text, parsed, hpc, sigc, seen>>

\* end of input: collector.GetInfo() in the main goroutine, Run returns and
\* the process ends
RaceEndOfStream ==
    /\ mpc = "scan"
    /\ out' \in Reports(latencyData, responseData, timedOutData)
    /\ mpc' = "done"
    /\ hpc' = "exited"
    /\ last' = "GetInfo"
    /\ UNCHANGED <<group, latencyData, responseData, timedOutData, calls, added,
                   text, parsed, sigc, seen>>

\* `for range c`: the handler receives the signal and calls GetInfo
HandlerReceive ==
    /\ Alive
    /\ hpc = "wait"
    /\ sigc = 1
    /\ sigc' = 0
    /\ hpc' = "loop1"
    /\ seen' = NoOutput
    /\ UNCHANGED <<group, latencyData, responseData, timedOutData, out, last, calls,
                   added, text, parsed, mpc>>

\* the statement of AddLine that writes the map a loop of GetInfo reads
Writer(loop) ==
    CASE loop = "loop1" -> "addLatency"
      [] loop = "loop2" -> "addResponse"
      [] loop = "loop3" -> "addTimedOut"
      [] loop = "loop4" -> "addLatency"

\* the handler is in a loop over a map that the main goroutine is writing
Racing == hpc \in {"loop1", "loop2", "loop3", "loop4"} /\ mpc = Writer(hpc)

\* GetInfo in the handler, first loop: countReqs
HandlerLoop1 ==
    /\ Alive
    /\ hpc = "loop1"
    /\ seen' = [countReqs |-> CountReqs(latencyData)]
    /\ hpc' = "loop2"
    /\ UNCHANGED <<group, latencyData, responseData, timedOutData, out, last, calls,
                   added, text, parsed, mpc, sigc>>

\* GetInfo in the handler, second loop: the response section
HandlerLoop2 ==
    /\ Alive
    /\ hpc = "loop2"
    /\ \E o \in Orders(DOMAIN responseData), co \in CodeOrders(responseData) :
          seen' = [responses |-> ResponseSection(responseData, o, co)] @@ seen
    /\ hpc' = "loop3"
    /\ UNCHANGED <<group, latencyData, responseData, timedOutData, out, last, calls,
                   added, text, parsed, mpc, sigc>>

\* GetInfo in the handler, third loop: the timeout section
HandlerLoop3 ==
    /\ Alive
    /\ hpc = "loop3"
    /\ \E o \in Orders(DOMAIN timedOutData) :
          seen' = [timeouts |-> TimeoutSection(timedOutData, o)] @@ seen
    /\ hpc' = "loop4"
    /\ UNCHANGED <<group, latencyData, responseData, timedOutData, out, last, calls,
                   added, text, parsed, mpc, sigc>>

\* GetInfo in the handler, fourth loop and the last Printf
HandlerLoop4 ==
    /\ Alive
    /\ hpc = "loop4"
    /\ \E o \in Orders(DOMAIN latencyData) :
          seen' = [latencies |-> LatencySection(latencyData, o),
                   numOver2s |-> numOver2s(latencyData)] @@ seen
    /\ out' = seen'
    /\ hpc' = "exit"
    /\ last' = "GetInfo"
    /\ UNCHANGED <<group, latencyData, responseData, timedOutData, calls,
                   added, text, parsed, mpc, sigc>>

\* the runtime detects the concurrent map access and stops the process
HandlerFatal ==
    /\ Alive
    /\ Racing
    /\ hpc' = "fatal"
    /\ mpc' = "exited"
    /\ UNCHANGED <<group, latencyData, responseData, timedOutData, out, last, calls,
                   added, text, parsed, sigc, seen>>

\* os.Exit(0)
HandlerExit ==
    /\ Alive
    /\ hpc = "exit"
    /\ hpc' = "exited"
    /\ mpc' = "exited"
    /\ UNCHANGED <<group, latencyData, responseData, timedOutData, out, last, calls,
                   added, text, parsed, sigc, seen>>

\* the lines of the interrupted runs
RaceLines ==
    {AccessLine(Addr1, RT_Half, TimeGood, St200, ReqA),
     AccessLine(Addr2, RT_2500m, TimeGood, St200, ReqB),
     ErrorLine(Addr1, StError, ReqA),
     NeitherLine}

NextRace ==
    \/ Interrupt
    \/ \E l \in RaceLines : RaceScan(l)
    \/ RaceAddLatency
    \/ RaceAddResponse
    \/ RaceAddTimedOut
    \/ RaceEndOfStream
    \/ HandlerReceive
    \/ HandlerLoop1
    \/ HandlerLoop2
    \/ HandlerLoop3
    \/ HandlerLoop4
    \/ HandlerFatal
    \/ HandlerExit

SpecRace == InitRace /\ [][NextRace]_vars

RECURSIVE SumRows(_)
SumRows(rows) == IF rows = <<>> THEN 0 ELSE Head(rows).totReqs + SumRows(Tail(rows))

\* C10: no loop of the handler over an aggregate map runs while AddLine is
\* changing that map, the runtime never stops the process for it, and the
\* report the handler prints is of one piece: the total it prints first is the
\* total of the latency table it prints last.
C10_NoConcurrentAccess ==
    /\ ~Racing
    /\ hpc # "fatal"
    /\ hpc = "exit" => seen.countReqs = SumRows(seen.latencies)

====
